---------------------------- MODULE Spec2Model ----------------------------
(***************************************************************************)
(* The DeFi tax API of backend-vercel/api: the FastAPI application         *)
(* (main.py) and the stdlib http.server handler (index.py).                *)
(*                                                                         *)
(* Text is modelled as it is operated on: a string the code searches,      *)
(* lower-cases, trims or formats is a sequence of one-character strings;   *)
(* a string the code only stores and returns (ids, timestamps, notes) is   *)
(* an opaque TLA+ string.  Money is held in cents.                         *)
(* An optional value is <<>> (None / absent) or <<v>>.                     *)
(***************************************************************************)
EXTENDS Integers, Sequences, FiniteSets

VARIABLES
    entry,      \* which entry point the process serves: "main" or "index"
    environ,    \* the names of the environment variables that are set
    catalog,    \* the module-level list MOCK_TRANSACTIONS of the entry point
    pc,         \* position of the request being served
    req,        \* the request being served
    txns,       \* the handler's local list (txns / filtered)
    ext,        \* the external text-generation call of this request
    resp        \* the response sent

vars == <<entry, environ, catalog, pc, req, txns, ext, resp>>

---------------------------------------------------------------------------
(* Bounds of the model *)

\* a query is the concatenation of at most MaxFrags fragments
MaxFrags == 2
\* limit ranges over -1 .. MaxLimit, or is omitted
MaxLimit == 4
\* datetime.now() yields one of 1 .. MaxTime
MaxTime == 2
\* record sequences handed to the pure functions have at most MaxRecs records
MaxRecs == 3

---------------------------------------------------------------------------
(* Optional values *)

None == <<>>
Some(v) == <<v>>

---------------------------------------------------------------------------
(* Python str operations *)

UpperChars == <<"A","B","C","D","E","F","G","H","I","J","K","L","M","N","O","P","Q","R","S","T","U","V","W","X","Y","Z">>
LowerChars == <<"a","b","c","d","e","f","g","h","i","j","k","l","m","n","o","p","q","r","s","t","u","v","w","x","y","z">>
Whitespace == {" ", "\t", "\n", "\r"}
Digits == <<"0","1","2","3","4","5","6","7","8","9">>

\* one character of str.lower()
LowerChar(c) ==
    IF \E i \in 1..26 : UpperChars[i] = c
    THEN LowerChars[CHOOSE i \in 1..26 : UpperChars[i] = c]
    ELSE c

\* str.lower()
lower(s) == [i \in 1..Len(s) |-> LowerChar(s[i])]

\* needle in hay
contains(needle, hay) ==
    \E i \in 0..(Len(hay) - Len(needle)) :
        SubSeq(hay, i + 1, i + Len(needle)) = needle

\* str.strip()
strip(s) ==
    LET keep == {i \in 1..Len(s) : s[i] \notin Whitespace}
    IN  IF keep = {} THEN <<>>
        ELSE SubSeq(s, CHOOSE i \in keep : \A j \in keep : i <= j,
                       CHOOSE i \in keep : \A j \in keep : j <= i)

\* str(n) for n >= 0
RECURSIVE str_nat(_)
str_nat(n) ==
    IF n < 10 THEN <<Digits[n + 1]>>
    ELSE str_nat(n \div 10) \o <<Digits[(n % 10) + 1]>>

\* str(n)
str_int(n) == IF n < 0 THEN <<"-">> \o str_nat(-n) ELSE str_nat(n)

\* value of one decimal digit
DigitVal(c) == (CHOOSE i \in 1..10 : Digits[i] = c) - 1

\* int(s) for a decimal string s with an optional leading minus sign
RECURSIVE int_nat(_)
int_nat(s) ==
    IF s = <<>> THEN 0
    ELSE 10 * int_nat(SubSeq(s, 1, Len(s) - 1)) + DigitVal(s[Len(s)])

int(s) == IF s[1] = "-" THEN -int_nat(Tail(s)) ELSE int_nat(s)

\* mutant of format_2f: str(round(x, 2)), which drops trailing zeros
format_round(cents) ==
    str_nat(cents \div 100) \o <<".">>
        \o (IF cents % 10 = 0 THEN <<Digits[((cents % 100) \div 10) + 1]>>
            ELSE <<Digits[((cents % 100) \div 10) + 1], Digits[(cents % 10) + 1]>>)

\* f"{x:.2f}" of an amount x held in cents (x >= 0)
format_2f(cents) ==
    str_nat(cents \div 100) \o <<".">>
        \o <<Digits[((cents % 100) \div 10) + 1], Digits[(cents % 10) + 1]>>

\* sep.join(parts)
RECURSIVE join(_, _)
join(sep, parts) ==
    IF parts = <<>> THEN <<>>
    ELSE IF Len(parts) = 1 THEN parts[1]
    ELSE parts[1] \o sep \o join(sep, Tail(parts))

\* s[:n], Python slicing of a list by an end index of either sign
slice_to(s, n) ==
    IF n >= 0 THEN SubSeq(s, 1, IF n < Len(s) THEN n ELSE Len(s))
    ELSE SubSeq(s, 1, IF Len(s) + n > 0 THEN Len(s) + n ELSE 0)

\* bool(x) of an optional string: None and "" are falsy
truthy(opt) == opt /= None /\ opt[1] /= <<>>

---------------------------------------------------------------------------
(* Module-level data *)

UNISWAP_V3 == <<"U","n","i","s","w","a","p"," ","V","3">>
AAVE_V3 == <<"A","a","v","e"," ","V","3">>
CURVE == <<"C","u","r","v","e">>
ETHEREUM == <<"e","t","h","e","r","e","u","m">>

\* MOCK_TRANSACTIONS (amounts and USD figures in hundredths)
MOCK_TRANSACTIONS ==
    << [id |-> "0xabc123", protocol |-> UNISWAP_V3, type |-> "SWAP",
        timestamp |-> "2024-03-15T10:23:00Z",
        token_in |-> [symbol |-> "ETH", amount |-> 150, usd_value |-> 525000],
        token_out |-> [symbol |-> "USDC", amount |-> 524750, usd_value |-> 524750],
        gas_usd |-> 1230, chain |-> ETHEREUM],
       [id |-> "0xdef456", protocol |-> AAVE_V3, type |-> "DEPOSIT",
        timestamp |-> "2024-06-20T14:05:00Z",
        token |-> [symbol |-> "USDC", amount |-> 300000, usd_value |-> 300000],
        gas_usd |-> 850, chain |-> ETHEREUM],
       [id |-> "0xghi789", protocol |-> CURVE, type |-> "ADD_LIQUIDITY",
        timestamp |-> "2024-09-10T09:45:00Z",
        token |-> [symbol |-> "USDC", amount |-> 200000, usd_value |-> 200000],
        gas_usd |-> 1520, chain |-> ETHEREUM] >>


\* MOCK_TAX_SUMMARY
MOCK_TAX_SUMMARY ==
    [tax_year |-> 2024, cost_basis_method |-> "FIFO",
     short_term_gains |-> 124750, long_term_gains |-> 382000,
     total_gains |-> 506750, total_gas_fees_usd |-> 3600,
     deductible_gas_fees |-> 3600, taxable_events |-> 3, income_events |-> 0,
     data_source |-> "mock -- set LIQUIFY_API_KEY for live Liquify Indexer data"]

\* the form_8949_summary literal of both tax-report handlers
FORM_8949_SUMMARY ==
    [part_i_short_term |->
        [proceeds |-> 524750, cost_basis |-> 400000, gain_loss |-> 124750],
     part_ii_long_term |->
        [proceeds |-> 820000, cost_basis |-> 438000, gain_loss |-> 382000]]

\* the protocols literal of both protocol handlers
PROTOCOLS ==
    << [name |-> "Uniswap V2", chains |-> <<"ethereum", "polygon", "arbitrum">>,
        events |-> <<"Swap", "Mint", "Burn">>],
       [name |-> "Uniswap V3",
        chains |-> <<"ethereum", "polygon", "arbitrum", "optimism">>,
        events |-> <<"Swap", "Mint", "Burn", "Collect">>],
       [name |-> "Aave V2", chains |-> <<"ethereum", "polygon", "avalanche">>,
        events |-> <<"Deposit", "Borrow", "Repay", "Liquidation">>],
       [name |-> "Aave V3",
        chains |-> <<"ethereum", "polygon", "arbitrum", "avalanche">>,
        events |-> <<"Supply", "Borrow", "Repay", "Liquidation">>],
       [name |-> "Curve", chains |-> <<"ethereum">>,
        events |-> <<"TokenExchange", "AddLiquidity", "RemoveLiquidity">>] >>

DATA_SOURCE_MAIN == "mock -- set LIQUIFY_API_KEY for live Liquify Indexer data"
DATA_SOURCE_INDEX == "mock -- set LIQUIFY_API_KEY for live data"

---------------------------------------------------------------------------
(* Dict operations *)

\* mutant of dict_merge: {**over, **base}, the constants winning
dict_merge_base_wins(base, over) ==
    [k \in (DOMAIN base) \cup (DOMAIN over) |->
        IF k \in DOMAIN base THEN base[k] ELSE over[k]]

\* {**base, **over}: the keys of both, over's values winning
dict_merge(base, over) ==
    [k \in (DOMAIN base) \cup (DOMAIN over) |->
        IF k \in DOMAIN over THEN over[k] ELSE base[k]]

\* t.get("gas_usd", 0)
get_gas_usd(t) == IF "gas_usd" \in DOMAIN t THEN t.gas_usd ELSE 0

\* body.get(key, default) of a request body whose fields are optional values
body_get(body, key, default) ==
    IF body[key] = None THEN default ELSE body[key][1]

---------------------------------------------------------------------------
(* The handlers' computations *)

\* [t for t in records if t["protocol"] == name]
by_protocol(records, name) ==
    SelectSeq(records, LAMBDA t : t.protocol = name)

\* nl_query: the if / elif chain over query_lower
intent_main(query, records) ==
    LET query_lower == lower(query)
    IN  IF contains(<<"u","n","i","s","w","a","p">>, query_lower) \/ contains(<<"s","w","a","p">>, query_lower)
        THEN by_protocol(records, UNISWAP_V3)
        ELSE IF contains(<<"a","a","v","e">>, query_lower)
                \/ contains(<<"d","e","p","o","s","i","t">>, query_lower)
                \/ contains(<<"l","e","n","d">>, query_lower)
        THEN by_protocol(records, AAVE_V3)
        ELSE IF contains(<<"c","u","r","v","e">>, query_lower)
                \/ contains(<<"l","i","q","u","i","d","i","t","y">>, query_lower)
        THEN by_protocol(records, CURVE)
        ELSE records

\* handler.do_POST, /api/query: the if / elif chain over query_lower
intent_index(query, records) ==
    LET query_lower == lower(query)
    IN  IF contains(<<"u","n","i","s","w","a","p">>, query_lower) \/ contains(<<"s","w","a","p">>, query_lower)
        THEN by_protocol(records, UNISWAP_V3)
        ELSE IF contains(<<"a","a","v","e">>, query_lower)
                \/ contains(<<"d","e","p","o","s","i","t">>, query_lower)
        THEN by_protocol(records, AAVE_V3)
        ELSE IF contains(<<"c","u","r","v","e">>, query_lower)
                \/ contains(<<"l","i","q","u","i","d","i","t","y">>, query_lower)
        THEN by_protocol(records, CURVE)
        ELSE records

\* the protocol filter: if protocol: txns = [t for t in txns if ...]
filter_protocol(records, protocol) ==
    IF truthy(protocol)
    THEN SelectSeq(records,
            LAMBDA t : contains(lower(protocol[1]), lower(t.protocol)))
    ELSE records

\* mutant of filter_chain: the parameter compared without .lower()
filter_chain_case_sensitive(records, chain) ==
    IF truthy(chain)
    THEN SelectSeq(records, LAMBDA t : t.chain = chain[1])
    ELSE records

\* the chain filter: if chain: txns = [t for t in txns if ...]
filter_chain(records, chain) ==
    IF truthy(chain)
    THEN SelectSeq(records, LAMBDA t : t.chain = lower(chain[1]))
    ELSE records

\* txns after both filters, before the [:limit] slice
select_transactions(records, protocol, chain) ==
    filter_chain(filter_protocol(records, protocol), chain)

\* mutant of limit_transactions: txns[:limit + 1]
limit_inclusive(records, limit) == slice_to(records, limit + 1)

\* mutant of limit_transactions: txns[limit:]
limit_drops_leading(records, limit) ==
    LET n == Len(records)
        start == IF limit >= 0 THEN (IF limit < n THEN limit ELSE n)
                 ELSE (IF n + limit > 0 THEN n + limit ELSE 0)
    IN  SubSeq(records, start + 1, n)

\* the list a transactions response carries: txns[:limit]
limit_transactions(records, limit) == slice_to(records, limit)

\* {t["protocol"] for t in transactions}
protocol_set(transactions) ==
    {transactions[i].protocol : i \in 1..Len(transactions)}

\* the orders in which list(a set) may enumerate the set
list_orders(S) ==
    {p \in [1..Cardinality(S) -> S] :
        \A i, j \in 1..Cardinality(S) : p[i] = p[j] => i = j}

\* sum(t.get("gas_usd", 0) for t in transactions)
RECURSIVE total_gas(_)
total_gas(transactions) ==
    IF transactions = <<>> THEN 0
    ELSE get_gas_usd(Head(transactions)) + total_gas(Tail(transactions))

\* the rule-based summary; protocols is list({t["protocol"] for t in ...})
rule_based_summary(query, transactions, protocols) ==
    IF transactions = <<>>
    THEN <<"N","o"," ","t","r","a","n","s","a","c","t","i","o","n","s"," ","f","o","u","n","d"," ","m","a","t","c","h","i","n","g"," ","'">> \o query \o <<"'",".">>
    ELSE <<"F","o","u","n","d"," ">> \o str_nat(Len(transactions)) \o <<" ","t","r","a","n","s","a","c","t","i","o","n","(","s",")"," ","a","c","r","o","s","s"," ">>
         \o join(<<","," ">>, protocols) \o <<"."," ","T","o","t","a","l"," ","g","a","s"," ","f","e","e","s",":"," ","$">>
         \o format_2f(total_gas(transactions)) \o <<".">>

---------------------------------------------------------------------------
(* Requests the clients may send *)

\* the limit of /api/transactions when the parameter is omitted
DEFAULT_LIMIT == 50

Fragments ==
    { <<"S","w","a","p">>, <<"u","n","i","s","w","a","p">>, <<"a","a","v","e">>, <<"D","E","P","O","S","I","T">>, <<"l","e","n","d">>, <<"c","u","r","v","e">>,
      <<"L","i","q","u","i","d","i","t","y">>, <<"x","y","z">>, <<" ">> }

RECURSIVE Concats(_)
Concats(k) ==
    IF k = 0 THEN {<<>>}
    ELSE LET shorter == Concats(k - 1)
         IN  shorter \cup {q \o f : q \in shorter, f \in Fragments}

Queries == Concats(MaxFrags)

ProtocolArgs ==
    {None, Some(<<>>), Some(<<"u","n","i">>), Some(<<"V","3">>), Some(<<"A","A","V","E">>),
     Some(<<"c","u","r","v","e">>), Some(<<"x","y","z">>)}

ChainArgs ==
    {None, Some(<<>>), Some(<<"e","t","h","e","r","e","u","m">>), Some(<<"E","t","h","e","r","e","u","m">>), Some(<<"p","o","l","y","g","o","n">>)}

LimitArgs == {None} \cup {Some(str_int(n)) : n \in (-1)..MaxLimit}

WalletArgs == {None, Some("0xW1"), Some("0xW2")}

QueryBodies ==
    [query : {None} \cup {Some(q) : q \in Queries},
     wallet_address : {None, Some("0xW1")}]

TaxReportBodies ==
    [wallet_address : WalletArgs,
     tax_year : {None, Some(2023), Some(2024)},
     cost_basis_method : {None, Some("LIFO"), Some("HIFO")}]

Times == 1..MaxTime

\* what the external text-generation service may answer
ExternalTexts ==
    { <<"3"," ","s","w","a","p","s",".">>, <<" "," ","T","w","o"," ","d","e","p","o","s","i","t","s","."," ","\n">>, <<"\n">> }

\* how the delegation may fail inside the try block
FailureKinds == {"network", "auth", "malformed", "timeout"}

---------------------------------------------------------------------------
(* State machine *)

NoRequest == [endpoint |-> "none"]
NoResponse == [status |-> 0]
NoCall == [state |-> "none"]

Init ==
    /\ entry \in {"main", "index"}
    /\ environ \in SUBSET {"ANTHROPIC_API_KEY", "LIQUIFY_API_KEY"}
    /\ catalog = MOCK_TRANSACTIONS
    /\ pc = "idle"
    /\ req = NoRequest
    /\ txns = <<>>
    /\ ext = NoCall
    /\ resp = NoResponse

\* a response is written and the request is over
respond(status, body) ==
    /\ resp' = [status |-> status, body |-> body]
    /\ pc' = "responded"

\* the 422 answer of FastAPI for a body that lacks a required field
validation_error(field) ==
    respond(422, [detail |-> <<[type |-> "missing", loc |-> <<"body", field>>]>>])

\* the body of both health handlers
health_body(now) ==
    [status |-> "healthy", version |-> "1.0.0", timestamp |-> now,
     liquify_configured |-> ("LIQUIFY_API_KEY" \in environ),
     ai_configured |-> ("ANTHROPIC_API_KEY" \in environ)]

\* main.py GET /health
health(now) ==
    /\ pc = "idle" /\ entry = "main"
    /\ req' = [endpoint |-> "health", now |-> now]
    /\ respond(200, health_body(now))
    /\ UNCHANGED <<entry, environ, catalog, txns, ext>>

\* index.py GET /health
do_GET_health(now) ==
    /\ pc = "idle" /\ entry = "index"
    /\ req' = [endpoint |-> "health", now |-> now]
    /\ respond(200, health_body(now))
    /\ UNCHANGED <<entry, environ, catalog, txns, ext>>

\* main.py GET /api/protocols
get_protocols ==
    /\ pc = "idle" /\ entry = "main"
    /\ req' = [endpoint |-> "protocols"]
    /\ respond(200, [protocols |-> PROTOCOLS])
    /\ UNCHANGED <<entry, environ, catalog, txns, ext>>

\* index.py GET /api/protocols
do_GET_protocols ==
    /\ pc = "idle" /\ entry = "index"
    /\ req' = [endpoint |-> "protocols"]
    /\ respond(200, [protocols |-> PROTOCOLS])
    /\ UNCHANGED <<entry, environ, catalog, txns, ext>>

\* mutant of get_transactions: del txns[limit:] on the unfiltered list, which
\* is MOCK_TRANSACTIONS itself
get_transactions_in_place(wallet, protocol, chain, limit_arg) ==
    /\ pc = "idle" /\ entry = "main"
    /\ req' = [endpoint |-> "transactions", wallet |-> wallet,
               protocol |-> protocol, chain |-> chain, limit |-> limit_arg]
    /\ LET limit == IF limit_arg = None THEN DEFAULT_LIMIT ELSE int(limit_arg[1])
           selected == select_transactions(catalog, protocol, chain)
       IN  /\ txns' = slice_to(selected, limit)
           /\ catalog' = IF truthy(protocol) \/ truthy(chain) THEN catalog
                         ELSE slice_to(catalog, limit)
           /\ respond(200,
                [wallet |-> wallet,
                 count |-> Len(slice_to(selected, limit)),
                 transactions |-> slice_to(selected, limit),
                 data_source |-> DATA_SOURCE_MAIN])
    /\ UNCHANGED <<entry, environ, ext>>

\* main.py GET /api/transactions
get_transactions(wallet, protocol, chain, limit_arg) ==
    /\ pc = "idle" /\ entry = "main"
    /\ req' = [endpoint |-> "transactions", wallet |-> wallet,
               protocol |-> protocol, chain |-> chain, limit |-> limit_arg]
    /\ LET limit == IF limit_arg = None THEN DEFAULT_LIMIT ELSE int(limit_arg[1])
           selected == select_transactions(catalog, protocol, chain)
       IN  /\ txns' = selected
           /\ respond(200,
                [wallet |-> wallet,
                 count |-> Len(limit_transactions(selected, limit)),
                 transactions |-> limit_transactions(selected, limit),
                 data_source |-> DATA_SOURCE_MAIN])
    /\ UNCHANGED <<entry, environ, catalog, ext>>

\* qs.get(name, [None])[0] after parse_qs, which drops blank values
qs_get(arg) == IF arg = Some(<<>>) THEN None ELSE arg

\* index.py GET /api/transactions
do_GET_transactions(protocol_arg, chain_arg, limit_arg) ==
    /\ pc = "idle" /\ entry = "index"
    /\ req' = [endpoint |-> "transactions", wallet |-> None,
               protocol |-> protocol_arg, chain |-> chain_arg,
               limit |-> limit_arg]
    /\ LET protocol == qs_get(protocol_arg)
           chain == qs_get(chain_arg)
           limit == IF limit_arg = None THEN DEFAULT_LIMIT ELSE int(limit_arg[1])
           selected == select_transactions(catalog, protocol, chain)
       IN  /\ txns' = selected
           /\ respond(200,
                [count |-> Len(limit_transactions(selected, limit)),
                 transactions |-> limit_transactions(selected, limit),
                 data_source |-> DATA_SOURCE_INDEX])
    /\ UNCHANGED <<entry, environ, catalog, ext>>

\* the body of a query response
query_body(query, wallet, filtered, summary, source) ==
    [query |-> query, wallet_address |-> wallet,
     transactions_found |-> Len(filtered), transactions |-> filtered,
     ai_summary |-> summary, data_source |-> source]

\* main.py POST /api/query, up to the external call of _generate_summary
nl_query(body) ==
    /\ pc = "idle" /\ entry = "main"
    /\ req' = [endpoint |-> "query", body |-> body]
    /\ IF body.query = None
       THEN /\ validation_error("query")
            /\ UNCHANGED <<txns, ext>>
       ELSE LET query == body.query[1]
                filtered == intent_main(query, catalog)
            IN  /\ txns' = filtered
                /\ IF "ANTHROPIC_API_KEY" \in environ
                   THEN /\ ext' = [state |-> "pending"]
                        /\ pc' = "ai_call"
                        /\ UNCHANGED resp
                   ELSE /\ \E protocols \in list_orders(protocol_set(filtered)) :
                             respond(200,
                                query_body(query, body.wallet_address, filtered,
                                    rule_based_summary(query, filtered, protocols),
                                    DATA_SOURCE_MAIN))
                        /\ UNCHANGED ext
    /\ UNCHANGED <<entry, environ, catalog>>

\* client.messages.create returns a message whose first block has this text
external_returns(text) ==
    /\ pc = "ai_call"
    /\ ext' = [state |-> "returned", text |-> text]
    /\ pc' = "ai_returned"
    /\ UNCHANGED <<entry, environ, catalog, req, txns, resp>>

\* an exception is raised inside the try block of _generate_summary
external_raises(kind) ==
    /\ pc = "ai_call"
    /\ ext' = [state |-> "raised", kind |-> kind]
    /\ pc' = "ai_raised"
    /\ UNCHANGED <<entry, environ, catalog, req, txns, resp>>

\* _generate_summary: return msg.content[0].text.strip(); nl_query returns
summary_from_external ==
    /\ pc = "ai_returned"
    /\ respond(200,
        query_body(req.body.query[1], req.body.wallet_address, txns,
                   strip(ext.text), DATA_SOURCE_MAIN))
    /\ UNCHANGED <<entry, environ, catalog, req, txns, ext>>

\* mutant of summary_fallback: no except clause, the exception reaches FastAPI
summary_raises ==
    /\ pc = "ai_raised"
    /\ respond(500, [detail |-> "Internal Server Error"])
    /\ UNCHANGED <<entry, environ, catalog, req, txns, ext>>

\* _generate_summary: except Exception: pass, then the rule-based fallback
summary_fallback ==
    /\ pc = "ai_raised"
    /\ \E protocols \in list_orders(protocol_set(txns)) :
          respond(200,
            query_body(req.body.query[1], req.body.wallet_address, txns,
                rule_based_summary(req.body.query[1], txns, protocols),
                DATA_SOURCE_MAIN))
    /\ UNCHANGED <<entry, environ, catalog, req, txns, ext>>

\* index.py POST /api/query
do_POST_query(body) ==
    /\ pc = "idle" /\ entry = "index"
    /\ req' = [endpoint |-> "query", body |-> body]
    /\ LET query == body_get(body, "query", <<>>)
           filtered == intent_index(query, catalog)
       IN  /\ txns' = filtered
           /\ \E protocols \in list_orders(protocol_set(filtered)) :
                 respond(200,
                    query_body(query, body.wallet_address, filtered,
                        rule_based_summary(query, filtered, protocols),
                        DATA_SOURCE_INDEX))
    /\ UNCHANGED <<entry, environ, catalog, ext>>

\* main.py POST /api/tax-report
tax_report(body, now) ==
    /\ pc = "idle" /\ entry = "main"
    /\ req' = [endpoint |-> "tax_report", body |-> body, now |-> now]
    /\ IF body.wallet_address = None
       THEN validation_error("wallet_address")
       ELSE respond(200,
                dict_merge(MOCK_TAX_SUMMARY,
                    [wallet_address |-> body.wallet_address[1],
                     tax_year |-> body_get(body, "tax_year", 2024),
                     cost_basis_method |-> body_get(body, "cost_basis_method", "FIFO"),
                     generated_at |-> now,
                     transactions |-> catalog,
                     form_8949_summary |-> FORM_8949_SUMMARY]))
    /\ UNCHANGED <<entry, environ, catalog, txns, ext>>

\* index.py POST /api/tax-report
do_POST_tax_report(body, now) ==
    /\ pc = "idle" /\ entry = "index"
    /\ req' = [endpoint |-> "tax_report", body |-> body, now |-> now]
    /\ respond(200,
        [wallet_address |-> body_get(body, "wallet_address", "unknown"),
         tax_year |-> body_get(body, "tax_year", 2024),
         cost_basis_method |-> body_get(body, "cost_basis_method", "FIFO"),
         generated_at |-> now,
         short_term_gains |-> 124750, long_term_gains |-> 382000,
         total_gains |-> 506750, total_gas_fees_usd |-> 3600,
         deductible_gas_fees |-> 3600, taxable_events |-> 3,
         transactions |-> catalog,
         form_8949_summary |-> FORM_8949_SUMMARY,
         data_source |-> DATA_SOURCE_INDEX])
    /\ UNCHANGED <<entry, environ, catalog, txns, ext>>

\* the server takes the next request; the handler's locals are gone
next_request ==
    /\ pc = "responded"
    /\ pc' = "idle"
    /\ req' = NoRequest
    /\ txns' = <<>>
    /\ ext' = NoCall
    /\ resp' = NoResponse
    /\ UNCHANGED <<entry, environ, catalog>>

Next ==
    \/ \E now \in Times : health(now)
    \/ \E now \in Times : do_GET_health(now)
    \/ get_protocols
    \/ do_GET_protocols
    \/ \E w \in WalletArgs, p \in ProtocolArgs, c \in ChainArgs, l \in LimitArgs :
          get_transactions(w, p, c, l)
    \/ \E p \in ProtocolArgs, c \in ChainArgs, l \in LimitArgs :
          do_GET_transactions(p, c, l)
    \/ \E body \in QueryBodies : nl_query(body)
    \/ \E text \in ExternalTexts : external_returns(text)
    \/ \E kind \in FailureKinds : external_raises(kind)
    \/ summary_from_external
    \/ summary_fallback
    \/ \E body \in QueryBodies : do_POST_query(body)
    \/ \E body \in TaxReportBodies, now \in Times : tax_report(body, now)
    \/ \E body \in TaxReportBodies, now \in Times : do_POST_tax_report(body, now)
    \/ next_request

Spec == Init /\ [][Next]_vars

\* the handler's own steps are taken once they are enabled; the clients and
\* the external service are under no obligation
FairSpec ==
    Spec /\ WF_vars(summary_from_external) /\ WF_vars(summary_fallback)
         /\ WF_vars(next_request)

---------------------------------------------------------------------------
(* The protocol filter and the rule-based summary as pure functions *)

\* a record outside the catalog: a second Uniswap V3 record, on another chain,
\* without a gas_usd key
EXTRA_RECORD ==
    [id |-> "0xjkl012", protocol |-> UNISWAP_V3, type |-> "SWAP",
     timestamp |-> "2024-11-02T08:00:00Z",
     token_in |-> [symbol |-> "USDC", amount |-> 10000, usd_value |-> 10000],
     token_out |-> [symbol |-> "MATIC", amount |-> 9000, usd_value |-> 9990],
     chain |-> <<"p","o","l","y","g","o","n">>]

RecordUniverse ==
    {MOCK_TRANSACTIONS[i] : i \in 1..Len(MOCK_TRANSACTIONS)} \cup {EXTRA_RECORD}

RECURSIVE SeqsUpTo(_, _)
SeqsUpTo(S, k) ==
    IF k = 0 THEN {<<>>}
    ELSE LET shorter == SeqsUpTo(S, k - 1)
         IN  shorter \cup {Append(r, x) : r \in shorter, x \in S}

RecordSeqs == SeqsUpTo(RecordUniverse, MaxRecs)

FilterInputs ==
    [endpoint : {"filter"}, records : RecordSeqs,
     protocol : {None, Some(<<"U","N","I">>), Some(<<"v","3">>)},
     chain : {None, Some(<<"P","o","l","y","g","o","n">>), Some(<<"e","t","h","e","r","e","u","m">>)},
     limit : (-1)..MaxLimit]

SummaryInputs ==
    [endpoint : {"summarize"}, records : RecordSeqs,
     query : {<<"x","y","z">>, <<"s","w","a","p">>}]

InitPure ==
    /\ entry = "main"
    /\ environ = {}
    /\ catalog = MOCK_TRANSACTIONS
    /\ pc = "pure"
    /\ req \in FilterInputs \cup SummaryInputs
    /\ txns = <<>>
    /\ ext = NoCall
    /\ resp = NoResponse

\* the filter of get_transactions applied to req.records
apply_filter ==
    /\ pc = "pure" /\ req.endpoint = "filter"
    /\ LET selected == select_transactions(req.records, req.protocol, req.chain)
       IN  /\ txns' = selected
           /\ resp' = [status |-> 200,
                       body |-> [count |-> Len(limit_transactions(selected, req.limit)),
                                 transactions |-> limit_transactions(selected, req.limit)]]
    /\ pc' = "pure_done"
    /\ UNCHANGED <<entry, environ, catalog, req, ext>>

\* the rule-based path of _generate_summary applied to req.records
apply_summary ==
    /\ pc = "pure" /\ req.endpoint = "summarize"
    /\ \E protocols \in list_orders(protocol_set(req.records)) :
          resp' = [status |-> 200,
                   body |-> [ai_summary |->
                       rule_based_summary(req.query, req.records, protocols)]]
    /\ pc' = "pure_done"
    /\ UNCHANGED <<entry, environ, catalog, req, txns, ext>>

NextPure == apply_filter \/ apply_summary

PureSpec == InitPure /\ [][NextPure]_vars

---------------------------------------------------------------------------
(* Vocabulary of the properties *)

Responded(endpoint) == pc = "responded" /\ req.endpoint = endpoint

\* s is an order-preserving sub-sequence of t
IsSubsequence(s, t) ==
    \E f \in [1..Len(s) -> 1..Len(t)] :
        /\ \A i, j \in 1..Len(s) : i < j => f[i] < f[j]
        /\ \A i \in 1..Len(s) : s[i] = t[f[i]]

\* the records of the catalog whose protocol is name, in catalog order
CatalogRecordsOf(name) ==
    SelectSeq(MOCK_TRANSACTIONS, LAMBDA t : t.protocol = name)

\* some keyword of K occurs in q, letter case ignored
KeywordHit(K, q) == \E k \in K : contains(k, lower(q))

\* the first-match-wins selection
FirstMatchSelection(q) ==
    IF KeywordHit({<<"u","n","i","s","w","a","p">>, <<"s","w","a","p">>}, q) THEN CatalogRecordsOf(UNISWAP_V3)
    ELSE IF KeywordHit({<<"a","a","v","e">>, <<"d","e","p","o","s","i","t">>, <<"l","e","n","d">>}, q)
    THEN CatalogRecordsOf(AAVE_V3)
    ELSE IF KeywordHit({<<"c","u","r","v","e">>, <<"l","i","q","u","i","d","i","t","y">>}, q) THEN CatalogRecordsOf(CURVE)
    ELSE MOCK_TRANSACTIONS

\* C1: every answer to POST /api/query, from either handler, carries exactly
\* the catalog records chosen by the first-match-wins rule over the keyword
\* sets {uniswap, swap}, {aave, deposit, lend}, {curve, liquidity} applied to
\* the lower-cased query (the full catalog when nothing matches), and
\* transactions_found is the number of records returned.
C1_FirstMatchWins ==
    (Responded("query") /\ req.body.query /= None /\ resp.status = 200) =>
        /\ resp.body.transactions = FirstMatchSelection(req.body.query[1])
        /\ resp.body.transactions_found = Len(resp.body.transactions)

\* a parameter that is present in the request
Present(arg) == arg /= None

\* a parameter that is present and not the empty string
Given(arg) == arg /= None /\ arg[1] /= <<>>

\* C2 as stated: the list before truncation is exactly the catalog records, in
\* catalog order, that satisfy the predicate of every present parameter
\* (protocol: case-insensitive containment; chain: equality after lower-casing
\* both sides).
C2_EveryPresentParameterFilters ==
    Responded("transactions") =>
        txns = SelectSeq(MOCK_TRANSACTIONS, LAMBDA t :
                  /\ Present(req.protocol) =>
                        contains(lower(req.protocol[1]), lower(t.protocol))
                  /\ Present(req.chain) => lower(t.chain) = lower(req.chain[1]))

\* C2 amended: the list before truncation is exactly the catalog records, in
\* catalog order, that satisfy the predicate of every parameter that is
\* present and not empty; an absent or empty parameter removes nothing;
\* chain=polygon gives count 0; with the limit omitted the response
\* carries that list.
C2_EveryNonEmptyParameterFilters ==
    Responded("transactions") =>
        LET expected ==
                SelectSeq(MOCK_TRANSACTIONS, LAMBDA t :
                  /\ Given(req.protocol) =>
                        contains(lower(req.protocol[1]), lower(t.protocol))
                  /\ Given(req.chain) => lower(t.chain) = lower(req.chain[1]))
        IN  /\ txns = expected
            /\ (~Given(req.protocol) /\ ~Given(req.chain)) => txns = MOCK_TRANSACTIONS
            /\ req.chain = Some(<<"p","o","l","y","g","o","n">>) => resp.body.count = 0
            /\ req.limit = None => resp.body.transactions = expected

C2_Witness ==
    /\ Responded("transactions")
    /\ req.protocol = Some(<<"A","A","V","E">>)
    /\ req.chain = Some(<<"E","t","h","e","r","e","u","m">>)
    /\ Len(txns) = 1
    /\ txns[1].id = "0xdef456"

\* C3: for a limit k >= 0 the response carries the first min(k, n) of the n
\* records that pass the filters, count is the number of records carried, an
\* omitted limit behaves as 50, and limit = 0 gives an empty list and count 0.
C3_LimitKeepsLeadingRecords ==
    Responded("transactions") =>
        LET n == Len(txns)
            FirstOf(k) == [i \in 1..(IF k < n THEN k ELSE n) |-> txns[i]]
        IN  /\ resp.body.count = Len(resp.body.transactions)
            /\ \A k \in 0..MaxLimit :
                  req.limit = Some(str_int(k)) =>
                      resp.body.transactions = FirstOf(k)
            /\ req.limit = None => resp.body.transactions = FirstOf(50)
            /\ req.limit = Some(<<"0">>) =>
                  resp.body.transactions = <<>> /\ resp.body.count = 0

C3_Witness ==
    /\ Responded("transactions")
    /\ req.limit = Some(<<"2">>)
    /\ Len(txns) = 3
    /\ resp.body.count = 2
    /\ resp.body.transactions = <<MOCK_TRANSACTIONS[1], MOCK_TRANSACTIONS[2]>>

\* C4: whatever requests were served, the catalog is its initial value, and
\* every transaction list of a response is an order-preserving sub-sequence
\* of the catalog made of unmodified catalog records.
C4_CatalogNeverMutated ==
    /\ catalog = MOCK_TRANSACTIONS
    /\ (pc = "responded" /\ resp.status = 200
            /\ req.endpoint \in {"transactions", "query", "tax_report"}) =>
          IsSubsequence(resp.body.transactions, MOCK_TRANSACTIONS)

C4_Witness ==
    /\ Responded("transactions")
    /\ req.protocol = Some(<<"c","u","r","v","e">>)
    /\ req.limit = Some(<<"1">>)
    /\ resp.body.transactions = <<MOCK_TRANSACTIONS[3]>>
    /\ catalog = MOCK_TRANSACTIONS

\* t is s without its leading and trailing whitespace
IsTrimmed(t, s) ==
    /\ t = <<>> \/ (t[1] \notin Whitespace /\ t[Len(t)] \notin Whitespace)
    /\ \E i \in 1..(Len(s) + 1) :
          /\ i + Len(t) - 1 <= Len(s)
          /\ t = SubSeq(s, i, i + Len(t) - 1)
          /\ \A j \in 1..Len(s) : (j < i \/ j > i + Len(t) - 1) => s[j] \in Whitespace

\* s is a rule-based summary of the query and records of the response
IsRuleBasedSummary(s) ==
    \E protocols \in list_orders(protocol_set(resp.body.transactions)) :
        s = rule_based_summary(resp.body.query, resp.body.transactions, protocols)

QueryBodyKeys ==
    {"query", "wallet_address", "transactions_found", "transactions",
     "ai_summary", "data_source"}

\* C5: a query with a query string is always answered 200 with a summary:
\* without a credential no external call is made and the summary is the
\* rule-based one; with a credential and an answer of the external service the
\* summary is that answer trimmed; with a credential and a failure of any kind
\* the summary is the rule-based one and the response shows no sign of the
\* failure.
C5_SummaryNeverRaises ==
    (Responded("query") /\ req.body.query /= None) =>
        /\ resp.status = 200
        /\ DOMAIN resp.body = QueryBodyKeys
        /\ "ANTHROPIC_API_KEY" \notin environ =>
              ext.state = "none" /\ IsRuleBasedSummary(resp.body.ai_summary)
        /\ ext.state = "returned" =>
              /\ "ANTHROPIC_API_KEY" \in environ
              /\ IsTrimmed(resp.body.ai_summary, ext.text)
        /\ ext.state = "raised" =>
              /\ "ANTHROPIC_API_KEY" \in environ
              /\ IsRuleBasedSummary(resp.body.ai_summary)
        /\ ext.state \in {"none", "returned", "raised"}

C5_Witness ==
    /\ Responded("query")
    /\ "ANTHROPIC_API_KEY" \in environ
    /\ ext.state = "raised" /\ ext.kind = "timeout"
    /\ req.body.query = Some(<<"l","e","n","d">>)
    /\ resp.status = 200
    /\ resp.body.ai_summary =
          <<"F","o","u","n","d"," ","1"," ","t","r","a","n","s","a","c","t","i","o","n","(","s",")"," ","a","c","r","o","s","s"," ","A","a","v","e"," ","V","3","."," ","T","o","t","a","l"," ","g","a","s"," ","f","e","e","s",":"," ","$","8",".","5","0",".">>

\* C6: every POST /api/query that is waiting for the external service is
\* eventually answered, whatever the service does.
C6_QueryEventuallyAnswered ==
    (pc = "ai_call") ~> (pc = "responded")

\* the sum of the gas costs of r, a record without one counting 0
RECURSIVE GasCents(_, _)
GasCents(r, n) ==
    IF n = 0 THEN 0
    ELSE GasCents(r, n - 1) + (IF "gas_usd" \in DOMAIN r[n] THEN r[n].gas_usd ELSE 0)

\* an amount of cents written in dollars with two decimals
Money(cents) ==
    LET frac == cents % 100
    IN  str_nat((cents - frac) \div 100) \o <<".">>
            \o (IF frac < 10 THEN <<"0">> ELSE <<>>) \o str_nat(frac)

\* C7: the rule-based summary of the empty set is "No transactions found
\* matching '<query>'."; of a non-empty set it is "Found <count>
\* transaction(s) across <protocols>. Total gas fees: $<total>." with the
\* number of records, each distinct protocol once in some order, and the sum of
\* the gas costs (a missing one counting 0) with two decimals; the single
\* Uniswap record gives $12.30 and the full catalog $36.00.
C7_RuleBasedSummary ==
    (pc = "pure_done" /\ req.endpoint = "summarize") =>
        LET s == resp.body.ai_summary
            r == req.records
            P == {r[i].protocol : i \in 1..Len(r)}
        IN  /\ r = <<>> =>
                  s = <<"N","o"," ","t","r","a","n","s","a","c","t","i","o","n","s"," ","f","o","u","n","d"," ","m","a","t","c","h","i","n","g"," ","'">> \o req.query \o <<"'",".">>
            /\ r /= <<>> =>
                  \E names \in [1..Cardinality(P) -> P] :
                      /\ \A p \in P : \E i \in DOMAIN names : names[i] = p
                      /\ s = <<"F","o","u","n","d"," ">> \o str_nat(Len(r))
                             \o <<" ","t","r","a","n","s","a","c","t","i","o","n","(","s",")"," ","a","c","r","o","s","s"," ">> \o join(<<","," ">>, names)
                             \o <<"."," ","T","o","t","a","l"," ","g","a","s"," ","f","e","e","s",":"," ","$">>
                             \o Money(GasCents(r, Len(r))) \o <<".">>
            /\ r = <<MOCK_TRANSACTIONS[1]>> =>
                  s = <<"F","o","u","n","d"," ","1"," ","t","r","a","n","s","a","c","t","i","o","n","(","s",")"," ","a","c","r","o","s","s"," ","U","n","i","s","w","a","p"," ","V","3","."," ","T","o","t","a","l"," ","g","a","s"," ","f","e","e","s",":"," ","$","1","2",".","3","0",".">>
            /\ r = MOCK_TRANSACTIONS =>
                  /\ SubSeq(s, 1, 30) = <<"F","o","u","n","d"," ","3"," ","t","r","a","n","s","a","c","t","i","o","n","(","s",")"," ","a","c","r","o","s","s"," ">>
                  /\ SubSeq(s, Len(s) - 24, Len(s)) = <<"."," ","T","o","t","a","l"," ","g","a","s"," ","f","e","e","s",":"," ","$","3","6",".","0","0",".">>

C7_Witness ==
    /\ pc = "pure_done" /\ req.endpoint = "summarize"
    /\ req.records = <<MOCK_TRANSACTIONS[1], EXTRA_RECORD, MOCK_TRANSACTIONS[3]>>
    /\ resp.body.ai_summary =
          <<"F","o","u","n","d"," ","3"," ","t","r","a","n","s","a","c","t","i","o","n","(","s",")"," ","a","c","r","o","s","s"," ","C","u","r","v","e",","," ","U","n","i","s","w","a","p"," ","V","3","."," ","T","o","t","a","l"," ","g","a","s"," ","f","e","e","s",":"," ","$","2","7",".","5","0",".">>

\* the fields of a report that echo the request or the clock
EchoedKeys == {"wallet_address", "tax_year", "cost_basis_method", "generated_at"}

\* the figures every report carries
ReportFigures ==
    [short_term_gains |-> 124750, long_term_gains |-> 382000,
     total_gains |-> 506750, total_gas_fees_usd |-> 3600,
     deductible_gas_fees |-> 3600, taxable_events |-> 3, income_events |-> 0,
     transactions |-> MOCK_TRANSACTIONS,
     form_8949_summary |->
        [part_i_short_term |->
            [proceeds |-> 524750, cost_basis |-> 400000, gain_loss |-> 124750],
         part_ii_long_term |->
            [proceeds |-> 820000, cost_basis |-> 438000, gain_loss |-> 382000]]]

\* C8: a report for a request that names a wallet carries the request's
\* wallet_address, tax_year (2024 when omitted) and cost_basis_method ("FIFO"
\* when omitted), the clock's generated_at, and otherwise only constants: the
\* same figures, transaction list and data-source note for every request.
C8_ReportEchoesRequest ==
    (Responded("tax_report") /\ req.body.wallet_address /= None) =>
        LET b == resp.body
            rest == DOMAIN b \ EchoedKeys
        IN  /\ resp.status = 200
            /\ EchoedKeys \subseteq DOMAIN b
            /\ b.wallet_address = req.body.wallet_address[1]
            /\ b.tax_year = (IF req.body.tax_year = None THEN 2024
                             ELSE req.body.tax_year[1])
            /\ b.cost_basis_method = (IF req.body.cost_basis_method = None
                                      THEN "FIFO" ELSE req.body.cost_basis_method[1])
            /\ b.generated_at = req.now
            /\ (DOMAIN ReportFigures \ {"income_events"}) \subseteq rest
            /\ rest \subseteq DOMAIN ReportFigures \cup {"data_source"}
            /\ \A k \in rest \ {"data_source"} : b[k] = ReportFigures[k]
            /\ b.data_source = (IF entry = "main" THEN DATA_SOURCE_MAIN
                                ELSE DATA_SOURCE_INDEX)

C8_Witness ==
    /\ Responded("tax_report")
    /\ entry = "main"
    /\ req.body.wallet_address = Some("0xW2")
    /\ req.body.tax_year = Some(2023)
    /\ req.body.cost_basis_method = Some("HIFO")
    /\ resp.body.tax_year = 2023
    /\ resp.body.cost_basis_method = "HIFO"
    /\ resp.body.total_gains = 506750

\* C9: a POST /api/query without the query field, and a POST /api/tax-report
\* without the wallet_address field, is answered with a 4xx status by every
\* handler.
C9_MissingFieldRejected ==
    (\/ Responded("query") /\ req.body.query = None
     \/ Responded("tax_report") /\ req.body.wallet_address = None) =>
        resp.status \in 400..499

\* C10: for a limit >= 0, filtering the result of the filter again with the
\* same protocol, chain and limit gives that same result.
C10_FilterIdempotent ==
    (pc = "pure_done" /\ req.endpoint = "filter" /\ req.limit >= 0) =>
        limit_transactions(
            select_transactions(resp.body.transactions, req.protocol, req.chain),
            req.limit) = resp.body.transactions

C10_Witness ==
    /\ pc = "pure_done" /\ req.endpoint = "filter"
    /\ req.records = <<MOCK_TRANSACTIONS[1], MOCK_TRANSACTIONS[2], EXTRA_RECORD>>
    /\ req.protocol = Some(<<"U","N","I">>)
    /\ req.limit = 1
    /\ Len(txns) = 2
    /\ resp.body.transactions = <<MOCK_TRANSACTIONS[1]>>

=============================================================================
